---- MODULE Spec2Model ----
(***************************************************************************)
(* Model of api/index.py: the three FastAPI handlers sync_ftp_to_drive,    *)
(* delete_drive_files and cleanup_ftp_directory, run against an FTP        *)
(* directory (ftpFiles) and a Google Drive folder (driveFiles).            *)
(*                                                                         *)
(* The handlers are `async def` bodies without any await, so the event     *)
(* loop runs one handler from request to response before the next starts:  *)
(* the model runs one request at a time.  Every call to one of the two     *)
(* stores is a step whose outcome (success, or the exception it raises) is *)
(* chosen nondeterministically.                                            *)
(***************************************************************************)
EXTENDS Integers, Sequences, FiniteSets, TLC

\* ---------------------------------------------------------------- bounds
MaxFiles == 2
MaxObjs == 2
MaxPages == 3

AllNames == <<"a.txt", "b.txt", "c.txt", "d.txt">>
Names == {AllNames[i] : i \in 1..MaxFiles}
Ids == 1..MaxObjs

\* ---------------------------------------------------------------- helpers
Range(s) == {s[i] : i \in 1..Len(s)}

Perms(S) == {s \in [1..Cardinality(S) -> S] : \A i, j \in 1..Cardinality(S) : s[i] = s[j] => i = j}

SetMin(S) == CHOOSE x \in S : \A y \in S : x <= y
SetMax(S) == CHOOSE x \in S : \A y \in S : x >= y

\* The objects of sequence p that the cut function puts on page j.
PageOf(p, cut, j) ==
    LET I == {i \in 1..Len(p) : cut[i] = j}
    IN IF I = {} THEN <<>> ELSE SubSeq(p, SetMin(I), SetMax(I))

\* Every way the Drive API may split the objects S of the folder into a
\* sequence of 1..MaxPages pages; a page may come back empty and still carry
\* a nextPageToken.
Paginations(S) ==
    {[j \in 1..k |-> PageOf(p, cut, j)] :
        <<k, p, cut>> \in {t \in (1..MaxPages) \X Perms(S) \X [1..Cardinality(S) -> 1..MaxPages] :
            /\ \A i \in 1..Cardinality(S) : t[3][i] <= t[1]
            /\ \A i, j \in 1..Cardinality(S) : i <= j => t[3][i] <= t[3][j]}}

\* The folders a Drive can hold: objects <<id, name>> with distinct ids.
Folders == UNION {[I -> Names] : I \in SUBSET Ids}
FolderSet(f) == {<<i, f[i]>> : i \in DOMAIN f}

VARIABLES
    ftpFiles,           \* names of the files in the FTP directory
    driveFiles,         \* objects <<id, name>> in the Drive folder
    op,                 \* handler of the current request
    pc,                 \* position inside the handler
    ftpOpen,            \* the handler's FTP control connection is open
    filenames,          \* sync/cleanup: result of ftp.nlst()
    idx,                \* index of the loop variable (filename / file)
    transferred_files,  \* sync: local list
    deleted_files,      \* delete_drive_files / cleanup: local list
    pages,              \* delete_drive_files: pagination served by Drive
    pageNo,             \* delete_drive_files: pages requested so far
    retrLog,            \* history: names passed to ftp.retrbinary
    createLog,          \* history: names passed to files().create
    delLog,             \* history: names/objects passed to a delete call
    okLog,              \* history: names/objects whose delete call succeeded
    failed,             \* history: names/objects whose per-item step raised
    driveTouched,       \* history: the handler called the Drive client
    fatal,              \* history: the call whose exception ended the run
    ftpAtStart,         \* history: ftpFiles when the request arrived
    driveAtStart,       \* history: driveFiles when the request arrived
    response            \* the HTTP response of the handler

vars == <<ftpFiles, driveFiles, op, pc, ftpOpen, filenames, idx,
          transferred_files, deleted_files, pages, pageNo, retrLog, createLog,
          delLog, okLog, failed, driveTouched, fatal, ftpAtStart, driveAtStart,
          response>>

stores == <<ftpFiles, driveFiles>>
locals == <<filenames, idx, transferred_files, deleted_files, pages, pageNo>>
history == <<retrLog, createLog, delLog, okLog, failed, driveTouched, fatal>>
snapshot == <<ftpAtStart, driveAtStart>>

\* ---------------------------------------------------------------- responses
\* A JSON body: keys holds the keys present, the other fields their values.
Body(status, keys, tf, dff, dc, df) ==
    [status |-> status, keys |-> keys, transferred_files |-> tf,
     deleted_from_ftp |-> dff, deleted_count |-> dc, deleted_files |-> df]

NoResponse == Body(0, {}, <<>>, <<>>, 0, <<>>)

\* raise HTTPException(status_code=500, detail=...)
HTTPException500 == Body(500, {"detail"}, <<>>, <<>>, 0, <<>>)

Init ==
    /\ ftpFiles \in SUBSET Names
    /\ driveFiles \in {FolderSet(f) : f \in Folders}
    /\ op = "none"
    /\ pc = "idle"
    /\ ftpOpen = FALSE
    /\ filenames = <<>>
    /\ idx = 0
    /\ transferred_files = <<>>
    /\ deleted_files = <<>>
    /\ pages = <<>>
    /\ pageNo = 0
    /\ retrLog = <<>>
    /\ createLog = <<>>
    /\ delLog = <<>>
    /\ okLog = <<>>
    /\ failed = {}
    /\ driveTouched = FALSE
    /\ fatal = "none"
    /\ ftpAtStart = ftpFiles
    /\ driveAtStart = driveFiles
    /\ response = NoResponse

\* A request arrives: the handler's locals are fresh.  A connection that the
\* previous handler left open is no longer referenced by anything.
Begin(handler, first) ==
    /\ pc \in {"idle", "done"}
    /\ op' = handler
    /\ pc' = first
    /\ ftpOpen' = FALSE
    /\ filenames' = <<>>
    /\ idx' = 0
    /\ transferred_files' = <<>>
    /\ deleted_files' = <<>>
    /\ pages' = <<>>
    /\ pageNo' = 0
    /\ retrLog' = <<>>
    /\ createLog' = <<>>
    /\ delLog' = <<>>
    /\ okLog' = <<>>
    /\ failed' = {}
    /\ driveTouched' = FALSE
    /\ fatal' = "none"
    /\ ftpAtStart' = ftpFiles
    /\ driveAtStart' = driveFiles
    /\ response' = NoResponse
    /\ UNCHANGED stores

\* The exception of the store call named cause leaves the handler as a 500.
Raise(cause) ==
    /\ pc' = "done"
    /\ fatal' = cause
    /\ response' = HTTPException500

\* Position after the loop variable moves to index i of a list of n items.
LoopPc(i, n, body, after) == IF i <= n THEN body ELSE after

\* ------------------------------------------------------------ FTP session
\* ftp = ftplib.FTP(); ftp.connect(host, port)
FtpConnect(next) ==
    \E ok \in BOOLEAN :
        /\ IF ok
           THEN /\ ftpOpen' = TRUE
                /\ pc' = next
                /\ UNCHANGED <<fatal, response>>
           ELSE /\ Raise("connect")
                /\ UNCHANGED ftpOpen
        /\ UNCHANGED <<stores, op, locals, snapshot>>
        /\ UNCHANGED <<retrLog, createLog, delLog, okLog, failed, driveTouched>>

\* ftp.login(user, password); ftp.cwd(directory)
FtpLogin(next) ==
    \E ok \in BOOLEAN :
        /\ IF ok
           THEN /\ pc' = next
                /\ UNCHANGED <<fatal, response>>
           ELSE Raise("login")
        /\ UNCHANGED <<stores, op, ftpOpen, locals, snapshot>>
        /\ UNCHANGED <<retrLog, createLog, delLog, okLog, failed, driveTouched>>

\* ----------------------------------------------------------- get_drive_service
\* The credentials load and build() either give the service or raise
\* HTTPException(500).
\* Variant: the except branch gives a service back instead of raising.
get_drive_service_swallow(ok) == "service"
get_drive_service(ok) == IF ok THEN "service" ELSE "HTTPException"

\* ------------------------------------------------------- sync_ftp_to_drive
sync_ftp_to_drive == Begin("sync", "s_connect")

sync_connect == pc = "s_connect" /\ FtpConnect("s_login")

sync_login == pc = "s_login" /\ FtpLogin("s_nlst")

\* return {"message": ..., "transferred_files": [], "deleted_from_ftp": []}
SyncEmptyResponse ==
    Body(200, {"message", "transferred_files", "deleted_from_ftp"}, <<>>, <<>>, 0, <<>>)

\* return {"message": ..., "transferred_files": transferred_files}
SyncResponse(tf) == Body(200, {"message", "transferred_files"}, tf, <<>>, 0, <<>>)

\* filenames = ftp.nlst(); if not filenames: return ...
sync_nlst ==
    /\ pc = "s_nlst"
    /\ \E ok \in BOOLEAN :
        IF ok
        THEN \E l \in Perms(ftpFiles) :
                /\ filenames' = l
                /\ IF l = <<>>
                   THEN /\ pc' = "done"
                        /\ response' = SyncEmptyResponse
                   ELSE /\ pc' = "s_auth"
                        /\ UNCHANGED response
                /\ UNCHANGED fatal
        ELSE /\ Raise("nlst")
             /\ UNCHANGED filenames
    /\ UNCHANGED <<stores, op, ftpOpen, snapshot>>
    /\ UNCHANGED <<idx, transferred_files, deleted_files, pages, pageNo>>
    /\ UNCHANGED <<retrLog, createLog, delLog, okLog, failed, driveTouched>>

\* drive_service = get_drive_service(); its HTTPException is caught by
\* `except Exception` and raised again as a 500.
sync_auth ==
    /\ pc = "s_auth"
    /\ \E ok \in BOOLEAN :
        /\ fatal' = IF ok THEN fatal ELSE "auth"
        /\ IF get_drive_service(ok) = "service"
           THEN /\ idx' = 1
                /\ pc' = LoopPc(1, Len(filenames), "s_retr", "s_quit")
                /\ UNCHANGED response
           ELSE /\ pc' = "done"
                /\ response' = HTTPException500
                /\ UNCHANGED idx
    /\ driveTouched' = TRUE
    /\ UNCHANGED <<stores, op, ftpOpen, snapshot>>
    /\ UNCHANGED <<filenames, transferred_files, deleted_files, pages, pageNo>>
    /\ UNCHANGED <<retrLog, createLog, delLog, okLog, failed>>

\* mem_file = io.BytesIO(); ftp.retrbinary(f'RETR {filename}', mem_file.write)
sync_retrbinary ==
    /\ pc = "s_retr"
    /\ retrLog' = Append(retrLog, filenames[idx])
    /\ \E ok \in BOOLEAN : pc' = IF ok THEN "s_create" ELSE "s_except"
    /\ UNCHANGED <<stores, op, ftpOpen, locals, snapshot, response>>
    /\ UNCHANGED <<createLog, delLog, okLog, failed, driveTouched, fatal>>

\* The id Drive gives a new object; the folder holds at most MaxObjs objects.
FreeIds == Ids \ {o[1] : o \in driveFiles}

\* file = drive_service.files().create(...).execute()
\* transferred_files.append(file.get('name'))
\* Variant: the name is appended before execute() has answered.
sync_create_append_first ==
    /\ pc = "s_create"
    /\ createLog' = Append(createLog, filenames[idx])
    /\ transferred_files' = Append(transferred_files, filenames[idx])
    /\ \E ok \in BOOLEAN :
        IF ok /\ FreeIds # {}
        THEN /\ driveFiles' = driveFiles \cup {<<SetMin(FreeIds), filenames[idx]>>}
             /\ idx' = idx + 1
             /\ pc' = LoopPc(idx + 1, Len(filenames), "s_retr", "s_quit")
        ELSE /\ pc' = "s_except"
             /\ UNCHANGED <<driveFiles, idx>>
    /\ UNCHANGED <<ftpFiles, op, ftpOpen, snapshot, response>>
    /\ UNCHANGED <<filenames, deleted_files, pages, pageNo>>
    /\ UNCHANGED <<retrLog, delLog, okLog, failed, driveTouched, fatal>>

sync_create ==
    /\ pc = "s_create"
    /\ createLog' = Append(createLog, filenames[idx])
    /\ \E ok \in BOOLEAN :
        IF ok /\ FreeIds # {}
        THEN /\ driveFiles' = driveFiles \cup {<<SetMin(FreeIds), filenames[idx]>>}
             /\ transferred_files' = Append(transferred_files, filenames[idx])
             /\ idx' = idx + 1
             /\ pc' = LoopPc(idx + 1, Len(filenames), "s_retr", "s_quit")
        ELSE /\ pc' = "s_except"
             /\ UNCHANGED <<driveFiles, transferred_files, idx>>
    /\ UNCHANGED <<ftpFiles, op, ftpOpen, snapshot, response>>
    /\ UNCHANGED <<filenames, deleted_files, pages, pageNo>>
    /\ UNCHANGED <<retrLog, delLog, okLog, failed, driveTouched, fatal>>

\* except Exception as loop_error: ...; continue
\* Variant: the loop error is raised again instead of `continue`.
sync_except_abort ==
    /\ pc = "s_except"
    /\ failed' = failed \cup {filenames[idx]}
    /\ pc' = "done"
    /\ response' = HTTPException500
    /\ UNCHANGED <<stores, op, ftpOpen, locals, snapshot>>
    /\ UNCHANGED <<retrLog, createLog, delLog, okLog, driveTouched, fatal>>

sync_except ==
    /\ pc = "s_except"
    /\ failed' = failed \cup {filenames[idx]}
    /\ idx' = idx + 1
    /\ pc' = LoopPc(idx + 1, Len(filenames), "s_retr", "s_quit")
    /\ UNCHANGED <<stores, op, ftpOpen, snapshot, response>>
    /\ UNCHANGED <<filenames, transferred_files, deleted_files, pages, pageNo>>
    /\ UNCHANGED <<retrLog, createLog, delLog, okLog, driveTouched, fatal>>

\* The session ends: ftp.quit(), then the body given.  quit() closes the
\* socket only after the server answered QUIT; when it raises, the handler
\* answers 500 and the socket stays open.
FtpQuit(body) ==
    /\ \E ok \in BOOLEAN :
        IF ok
        THEN /\ ftpOpen' = FALSE
             /\ pc' = "done"
             /\ response' = body
             /\ UNCHANGED fatal
        ELSE /\ Raise("quit")
             /\ UNCHANGED ftpOpen
    /\ UNCHANGED <<stores, op, locals, snapshot>>
    /\ UNCHANGED <<retrLog, createLog, delLog, okLog, failed, driveTouched>>

\* ftp.quit(); return {...}
sync_quit == pc = "s_quit" /\ FtpQuit(SyncResponse(transferred_files))

\* ----------------------------------------------------- delete_drive_files
delete_drive_files == Begin("drive", "d_auth")

\* if not deleted_files: return {..., "deleted_count": 0}
\* return {..., "deleted_count": len(deleted_files), "deleted_files": deleted_files}
DriveResponse(df) ==
    IF df = <<>>
    THEN Body(200, {"message", "folder_id", "deleted_count"}, <<>>, <<>>, 0, <<>>)
    ELSE Body(200, {"message", "folder_id", "deleted_count", "deleted_files"},
              <<>>, <<>>, Len(df), df)

\* drive_service = get_drive_service(), outside the try: its HTTPException is
\* the response.
drive_auth ==
    /\ pc = "d_auth"
    /\ \E ok \in BOOLEAN :
        /\ fatal' = IF ok THEN fatal ELSE "auth"
        /\ IF get_drive_service(ok) = "service"
           THEN /\ pc' = "d_list"
                /\ UNCHANGED response
           ELSE /\ pc' = "done"
                /\ response' = HTTPException500
    /\ driveTouched' = TRUE
    /\ UNCHANGED <<stores, op, ftpOpen, locals, snapshot>>
    /\ UNCHANGED <<retrLog, createLog, delLog, okLog, failed>>

\* response = files().list(..., pageToken=page_token).execute()
\* files_in_page = response.get('files', []); if not files_in_page: break
\* The first request fixes the pagination Drive serves for the folder.
drive_list ==
    /\ pc = "d_list"
    /\ \E ok \in BOOLEAN :
        IF ok
        THEN \E pg \in (IF pageNo = 0 THEN Paginations(driveFiles) ELSE {pages}) :
                /\ pages' = pg
                /\ pageNo' = pageNo + 1
                /\ IF pg[pageNo + 1] = <<>>
                   THEN /\ pc' = "done"
                        /\ response' = DriveResponse(deleted_files)
                        /\ UNCHANGED idx
                   ELSE /\ pc' = "d_delete"
                        /\ idx' = 1
                        /\ UNCHANGED response
                /\ UNCHANGED fatal
        ELSE /\ Raise("list")
             /\ UNCHANGED <<pages, pageNo, idx>>
    /\ UNCHANGED <<stores, op, ftpOpen, snapshot>>
    /\ UNCHANGED <<filenames, transferred_files, deleted_files>>
    /\ UNCHANGED <<retrLog, createLog, delLog, okLog, failed, driveTouched>>

\* The exceptions of files().delete(...).execute(): HttpError for an answer of
\* the API, any other exception for a transport failure.
DeleteOutcomes == {"ok", "HttpError", "Exception"}

\* for file in files_in_page: try: delete; append  except HttpError: ...
\* page_token = response.get('nextPageToken', None); if not page_token: break
drive_delete ==
    /\ pc = "d_delete"
    /\ LET file == pages[pageNo][idx]
       IN /\ delLog' = Append(delLog, file)
          /\ \E out \in DeleteOutcomes :
              /\ IF out = "ok"
                 THEN /\ driveFiles' = driveFiles \ {file}
                      /\ deleted_files' = Append(deleted_files, file[2])
                      /\ okLog' = Append(okLog, file)
                      /\ UNCHANGED failed
                 ELSE /\ failed' = failed \cup {file}
                      /\ UNCHANGED <<driveFiles, deleted_files, okLog>>
              /\ IF out = "Exception"
                 THEN /\ pc' = "done"
                      /\ response' = HTTPException500
                      /\ UNCHANGED idx
                 ELSE IF idx < Len(pages[pageNo])
                 THEN /\ idx' = idx + 1
                      /\ UNCHANGED <<pc, response>>
                 ELSE IF pageNo < Len(pages)
                 THEN /\ pc' = "d_list"
                      /\ UNCHANGED <<idx, response>>
                 ELSE /\ pc' = "done"
                      /\ response' = DriveResponse(deleted_files')
                      /\ UNCHANGED idx
    /\ UNCHANGED <<ftpFiles, op, ftpOpen, snapshot>>
    /\ UNCHANGED <<filenames, transferred_files, pages, pageNo>>
    /\ UNCHANGED <<retrLog, createLog, driveTouched, fatal>>

\* -------------------------------------------------- cleanup_ftp_directory
cleanup_ftp_directory == Begin("cleanup", "c_connect")

cleanup_connect == pc = "c_connect" /\ FtpConnect("c_login")

cleanup_login == pc = "c_login" /\ FtpLogin("c_nlst")

\* return {"message": "Nenhum arquivo encontrado ..."}
\* Variant: an empty listing is answered as an error.
CleanupEmptyResponseRaise == HTTPException500
CleanupEmptyResponse == Body(200, {"message"}, <<>>, <<>>, 0, <<>>)

\* return {"message": ..., "deleted_count": len(deleted_files), "deleted_files": ...}
CleanupResponse(df) ==
    Body(200, {"message", "deleted_count", "deleted_files"}, <<>>, <<>>, Len(df), df)

\* filenames = ftp.nlst(); if not filenames: ...
cleanup_nlst ==
    /\ pc = "c_nlst"
    /\ \E ok \in BOOLEAN :
        IF ok
        THEN \E l \in Perms(ftpFiles) :
                /\ filenames' = l
                /\ idx' = 1
                /\ pc' = LoopPc(1, Len(l), "c_delete", "c_quit_empty")
                /\ UNCHANGED <<fatal, response>>
        ELSE /\ Raise("nlst")
             /\ UNCHANGED <<filenames, idx>>
    /\ UNCHANGED <<stores, op, ftpOpen, snapshot>>
    /\ UNCHANGED <<transferred_files, deleted_files, pages, pageNo>>
    /\ UNCHANGED <<retrLog, createLog, delLog, okLog, failed, driveTouched>>

\* if not filenames: ftp.quit(); return {...}
cleanup_quit_empty == pc = "c_quit_empty" /\ FtpQuit(CleanupEmptyResponse)

\* try: ftp.delete(filename); deleted_files.append(filename)
\* except Exception: ...; continue
\* Variant: the name is appended before ftp.delete has answered.
cleanup_delete_append_first ==
    /\ pc = "c_delete"
    /\ delLog' = Append(delLog, filenames[idx])
    /\ deleted_files' = Append(deleted_files, filenames[idx])
    /\ \E ok \in BOOLEAN :
        IF ok
        THEN /\ ftpFiles' = ftpFiles \ {filenames[idx]}
             /\ okLog' = Append(okLog, filenames[idx])
             /\ UNCHANGED failed
        ELSE /\ failed' = failed \cup {filenames[idx]}
             /\ UNCHANGED <<ftpFiles, okLog>>
    /\ idx' = idx + 1
    /\ pc' = LoopPc(idx + 1, Len(filenames), "c_delete", "c_quit")
    /\ UNCHANGED <<driveFiles, op, ftpOpen, snapshot, response>>
    /\ UNCHANGED <<filenames, transferred_files, pages, pageNo>>
    /\ UNCHANGED <<retrLog, createLog, driveTouched, fatal>>

cleanup_delete ==
    /\ pc = "c_delete"
    /\ delLog' = Append(delLog, filenames[idx])
    /\ \E ok \in BOOLEAN :
        IF ok
        THEN /\ ftpFiles' = ftpFiles \ {filenames[idx]}
             /\ deleted_files' = Append(deleted_files, filenames[idx])
             /\ okLog' = Append(okLog, filenames[idx])
             /\ UNCHANGED failed
        ELSE /\ failed' = failed \cup {filenames[idx]}
             /\ UNCHANGED <<ftpFiles, deleted_files, okLog>>
    /\ idx' = idx + 1
    /\ pc' = LoopPc(idx + 1, Len(filenames), "c_delete", "c_quit")
    /\ UNCHANGED <<driveFiles, op, ftpOpen, snapshot, response>>
    /\ UNCHANGED <<filenames, transferred_files, pages, pageNo>>
    /\ UNCHANGED <<retrLog, createLog, driveTouched, fatal>>

\* ftp.quit(); return {...}
cleanup_quit == pc = "c_quit" /\ FtpQuit(CleanupResponse(deleted_files))

\* ---------------------------------------------------------- specification
Next ==
    \/ sync_ftp_to_drive
    \/ sync_connect
    \/ sync_login
    \/ sync_nlst
    \/ sync_auth
    \/ sync_retrbinary
    \/ sync_create
    \/ sync_except
    \/ sync_quit
    \/ delete_drive_files
    \/ drive_auth
    \/ drive_list
    \/ drive_delete
    \/ cleanup_ftp_directory
    \/ cleanup_connect
    \/ cleanup_login
    \/ cleanup_nlst
    \/ cleanup_quit_empty
    \/ cleanup_delete
    \/ cleanup_quit

Spec == Init /\ [][Next]_vars

\* ------------------------------------------------------------ properties
Done(h) == op = h /\ pc = "done"

\* The handler got its listing from ftp.nlst().
Listed == fatal \notin {"connect", "login", "nlst"}

\* The names a response reports under a key (none when the key is absent).
ReportedDeletedFromFtp ==
    IF "deleted_from_ftp" \in response.keys THEN Range(response.deleted_from_ftp) ELSE {}

\* The names of a sequence of Drive objects.
NamesOf(objs) == [i \in 1..Len(objs) |-> objs[i][2]]

\* C1: when sync returns, no file it reports as transferred is still on the
\* source: each was deleted after its destination create succeeded.
C1_TransferredFilesDeletedFromSource ==
    Done("sync") => \A f \in Range(transferred_files) : f \notin ftpFiles

\* C2: in every successful sync response the names reported as deleted from
\* the source are exactly the names reported as transferred.
C2_DeletedEqualsTransferred ==
    (Done("sync") /\ response.status = 200)
        => ReportedDeletedFromFtp = Range(response.transferred_files)

\* C3: a file whose retrieval or destination create failed during sync is
\* still on the source and is not among the transferred files, at every point
\* of the run and in the response.
C3_FailedFileStaysAndIsNotTransferred ==
    op = "sync" =>
        \A f \in failed :
            /\ f \in ftpFiles
            /\ f \notin Range(transferred_files)
            /\ f \notin Range(response.transferred_files)

C3_Witness ==
    /\ Done("sync")
    /\ response.status = 200
    /\ failed # {}
    /\ createLog # <<>>
    /\ Range(createLog) \cap failed # {}

\* C4: once sync has its listing and the Drive service, every listed name is
\* retrieved exactly once in listing order whatever failed before it, no name
\* gets two create attempts, every name ends either transferred or failed, and
\* the only 500 the run can still answer is the one of ftp.quit().
C4_EveryFileAttemptedOnce ==
    (Done("sync") /\ Listed /\ fatal # "auth" /\ filenames # <<>>) =>
        /\ retrLog = filenames
        /\ createLog = SelectSeq(filenames, LAMBDA f : f \in Range(createLog))
        /\ Range(filenames) = Range(transferred_files) \cup failed
        /\ response.status = 500 <=> fatal = "quit"
        /\ response.status = 200 => response.transferred_files = transferred_files

C4_Witness ==
    /\ Done("sync")
    /\ response.status = 200
    /\ Len(filenames) >= 2
    /\ filenames[1] \in failed
    /\ retrLog = filenames
    /\ filenames[2] \in Range(transferred_files)

\* Concatenation of the first n pages.
RECURSIVE Flatten(_, _)
Flatten(pg, n) == IF n = 0 THEN <<>> ELSE Flatten(pg, n - 1) \o pg[n]

\* C5: in delete_drive_files a failure of any kind of one delete is skipped:
\* the handler still answers its result and every object of the pages it
\* requested got its delete attempt.
C5_DeleteFailureSkipped ==
    (Done("drive") /\ fatal = "none" /\ failed # {}) =>
        /\ response.status = 200
        /\ delLog = Flatten(pages, pageNo)

\* C6: when delete_drive_files returns, every object of the folder got a
\* delete attempt (an object still there is one whose delete failed), the
\* names reported are those of the objects deleted, and deleted_count is
\* their number; for any pagination, empty pages with a next cursor included.
C6_PurgeCoversAllPages ==
    (Done("drive") /\ response.status = 200) =>
        /\ driveFiles \subseteq failed
        /\ response.deleted_files = NamesOf(okLog)
        /\ response.deleted_count = Len(okLog)

\* C7: when get_drive_service fails in sync the run ends at once with one 500
\* carrying no transfer result; nothing was retrieved, created or deleted.
C7_AuthFailureIsFatal ==
    (op = "sync" /\ fatal = "auth") =>
        /\ pc = "done"
        /\ response = HTTPException500
        /\ retrLog = <<>>
        /\ createLog = <<>>
        /\ transferred_files = <<>>
        /\ ftpFiles = ftpAtStart
        /\ driveFiles = driveAtStart

C7_Witness ==
    /\ Done("sync")
    /\ fatal = "auth"
    /\ Len(filenames) >= 2
    /\ response.status = 500

\* The answers of sync and delete_drive_files on an empty listing.
EmptySyncAndDrive ==
    /\ (Done("sync") /\ Listed /\ filenames = <<>>) =>
            /\ response.status = 200
            /\ {"transferred_files", "deleted_from_ftp"} \subseteq response.keys
            /\ response.transferred_files = <<>>
            /\ response.deleted_from_ftp = <<>>
    /\ (Done("drive") /\ fatal \notin {"auth", "list"} /\ driveAtStart = {}) =>
            /\ response.status = 200
            /\ "deleted_count" \in response.keys
            /\ response.deleted_count = 0

\* C8 as stated: each of the three handlers answers an empty listing with a
\* defined result and never with a 500.
C8_EmptyListingNeverFails ==
    /\ EmptySyncAndDrive
    /\ (Done("cleanup") /\ Listed /\ filenames = <<>>) => response.status = 200

\* C8 amended: as above, except that cleanup_ftp_directory on an empty
\* listing answers 500 when its ftp.quit() raises, and success otherwise.
C8_EmptyListingFailsOnlyOnQuit ==
    /\ EmptySyncAndDrive
    /\ (Done("cleanup") /\ Listed /\ filenames = <<>>) =>
            \/ fatal = "none" /\ response.status = 200 /\ response.keys = {"message"}
            \/ fatal = "quit" /\ response.status = 500

C8_Witness ==
    /\ Done("cleanup")
    /\ Listed
    /\ filenames = <<>>
    /\ response.status = 200
    /\ ftpOpen = FALSE

\* C9: when sync or cleanup_ftp_directory has answered, the FTP connection it
\* opened is closed, on every return path.
C9_ConnectionClosedAtReturn ==
    (pc = "done" /\ op \in {"sync", "cleanup"}) => ~ftpOpen

\* C10: cleanup_ftp_directory never calls the Drive client nor changes the
\* folder; once it has its listing it tries to delete every name in order,
\* the failed ones stay on the source and the others are gone; its result
\* reports exactly the names whose delete succeeded, and their number.
C10_PurgeSourceDeletesAndReports ==
    /\ op = "cleanup" => ~driveTouched /\ driveFiles = driveAtStart
    /\ (Done("cleanup") /\ Listed) =>
            /\ delLog = filenames
            /\ ftpFiles = ftpAtStart \ Range(okLog)
            /\ failed = Range(filenames) \ Range(okLog)
    /\ (Done("cleanup") /\ response.status = 200 /\ filenames # <<>>) =>
            /\ {"deleted_count", "deleted_files"} \subseteq response.keys
            /\ response.deleted_files = okLog
            /\ response.deleted_count = Len(okLog)

C10_Witness ==
    /\ Done("cleanup")
    /\ response.status = 200
    /\ Len(filenames) >= 2
    /\ filenames[1] \in failed
    /\ okLog = <<filenames[2]>>
    /\ ftpFiles = {filenames[1]}

====
